---- MODULE Spec2Model ----
(***************************************************************************)
(* Model of two_layer_net_custom_autograd_function.py: the custom autograd *)
(* function MyRelu (forward / backward) and the manual gradient-descent    *)
(* training loop that uses it.                                             *)
(*                                                                         *)
(* Tensors are matrices (sequences of rows) over the integers.  Matrix     *)
(* products, sums and powers are exact; the only rounding is in the        *)
(* product learning_rate * grad, which is rounded to the nearest integer   *)
(* (the script works in single precision, which rounds as well).           *)
(***************************************************************************)
EXTENDS Integers, Sequences, FiniteSets, TLC

\* Tensor shapes of line 46, made small.
N == 1
D_in == 1
H == 2
D_out == 1

\* range(500) of line 58.
NumIters == 500

\* learning_rate = 1e-6 of line 56, as the fraction LrNum / LrDen.
LrNum == 1
LrDen == 1000000

\* Values torch.randn may draw for the entries of x, y, w1 and w2.  x, y and
\* w2 start filled with one value, w1 with one value for the odd and one
\* for the even hidden units.
XVals == {-20, 20}
YVals == {100}
W1Vals == {0, 10}
W2Vals == {-10, 10}

\* MyRelu exercised on its own: tensors of shape (1, NumElems) with these
\* values as input and as grad_output.
NumElems == 2
InVals == {-1, 0, 1}
GradVals == {-1, 2}

\* An attribute that is not set (w.grad before the first backward pass,
\* ctx.saved_tensors when nothing is saved).
None == <<>>

VARIABLES
    pc,             \* position of the script
    t,              \* loop variable of line 58 (-1 before the loop)
    x, y,           \* input and target batch (lines 49, 50)
    w1, w2,         \* the weights (lines 53, 54)
    w1_grad,        \* w1.grad
    w2_grad,        \* w2.grad
    ctx,            \* contexts of MyRelu.apply calls awaiting their backward
    relu_out,       \* relu(x.mm(w1)), kept by the graph of y_pred
    y_pred,         \* line 64
    loss,           \* line 67
    out,            \* lines printed so far
    input,          \* MyRelu on its own: the tensor passed to forward
    output,         \* MyRelu on its own: result of the last forward call
    prev_output,    \* MyRelu on its own: result of the forward call before
    saved_tensors,  \* MyRelu on its own: ctx.saved_tensors
    used_input,     \* MyRelu on its own: the saved input backward read
    grad_output,    \* MyRelu on its own: argument of the last backward call
    grad_input      \* MyRelu on its own: result of the last backward call

loopVars == <<pc, t, x, y, w1, w2, w1_grad, w2_grad, ctx, relu_out, y_pred,
              loss, out>>
reluVars == <<input, output, prev_output, saved_tensors, used_input,
              grad_output, grad_input>>
vars == <<pc, t, x, y, w1, w2, w1_grad, w2_grad, ctx, relu_out, y_pred,
          loss, out, input, output, prev_output, saved_tensors, used_input,
          grad_output, grad_input>>

----------------------------------------------------------------------------
\* Tensor operations of the library.

Matrices(r, c, V) == [1..r -> [1..c -> V]]

\* The (r, c) tensor filled with v, and the r-row tensor whose rows are row.
Filled(r, c, v) == [i \in 1..r |-> [j \in 1..c |-> v]]
RowsOf(r, row) == [i \in 1..r |-> row]

Rows(A) == Len(A)
Cols(A) == Len(A[1])

Zeros(r, c) == [i \in 1..r |-> [j \in 1..c |-> 0]]

RECURSIVE SumTo(_, _)
SumTo(f, n) == IF n = 0 THEN 0 ELSE f[n] + SumTo(f, n - 1)

\* A.mm(B)
Mm(A, B) ==
    [i \in 1..Rows(A) |-> [j \in 1..Cols(B) |->
        SumTo([k \in 1..Cols(A) |-> A[i][k] * B[k][j]], Cols(A))]]

\* A.t()
Transpose(A) == [j \in 1..Cols(A) |-> [i \in 1..Rows(A) |-> A[i][j]]]

\* A - B
Sub(A, B) == [i \in 1..Rows(A) |-> [j \in 1..Cols(A) |-> A[i][j] - B[i][j]]]

\* A + B
Add(A, B) == [i \in 1..Rows(A) |-> [j \in 1..Cols(A) |-> A[i][j] + B[i][j]]]

\* c * A for an integer c
Scale(c, A) == [i \in 1..Rows(A) |-> [j \in 1..Cols(A) |-> c * A[i][j]]]

\* A.pow(2).sum()
SumSquares(A) ==
    SumTo([i \in 1..Rows(A) |->
              SumTo([j \in 1..Cols(A) |-> A[i][j] * A[i][j]], Cols(A))],
          Rows(A))

\* A.clamp(min=m)
Clamp(A, m) ==
    [i \in 1..Rows(A) |-> [j \in 1..Cols(A) |->
        IF A[i][j] < m THEN m ELSE A[i][j]]]

\* learning_rate * g for one entry, rounded to the nearest integer.
LrTimes(g) == (2 * LrNum * g + LrDen) \div (2 * LrDen)

\* learning_rate * G
learning_rate_times(G) ==
    [i \in 1..Rows(G) |-> [j \in 1..Cols(G) |-> LrTimes(G[i][j])]]

----------------------------------------------------------------------------
\* MyRelu

\* Variant of forward that clamps from above: input.clamp(max=0).
MyRelu_forward_clamp_max(inp) ==
    [input  |-> inp,
     saved  |-> inp,
     output |-> [i \in 1..Rows(inp) |-> [j \in 1..Cols(inp) |->
                    IF inp[i][j] > 0 THEN 0 ELSE inp[i][j]]]]

\* Variant of forward that clamps its argument in place: input.clamp_(min=0).
MyRelu_forward_in_place(inp) ==
    [input  |-> Clamp(inp, 0),
     saved  |-> Clamp(inp, 0),
     output |-> Clamp(inp, 0)]

\* MyRelu.forward(ctx, input): what the call leaves in the argument tensor,
\* what it saves in ctx and what it returns.
MyRelu_forward(inp) ==
    [input  |-> inp,
     saved  |-> inp,
     output |-> Clamp(inp, 0)]

\* MyRelu.backward(ctx, grad_output), saved being ctx.saved_tensors[0].
MyRelu_backward(saved, g) ==
    [i \in 1..Rows(g) |-> [j \in 1..Cols(g) |->
        IF saved[i][j] < 0 THEN 0 ELSE g[i][j]]]

----------------------------------------------------------------------------
\* The reverse pass of the autograd engine over the graph of
\* loss = (relu(x.mm(w1)).mm(w2) - y).pow(2).sum(): the gradients it hands to
\* the accumulators of w1 and w2.  saved is the tensor MyRelu.forward saved.
BackwardPass(x_, y_, w2_, saved, relu_out_, y_pred_) ==
    LET grad_y_pred   == Scale(2, Sub(y_pred_, y_))
        grad_w2       == Mm(Transpose(relu_out_), grad_y_pred)
        grad_relu_out == Mm(grad_y_pred, Transpose(w2_))
        grad_h        == MyRelu_backward(saved, grad_relu_out)
        grad_w1       == Mm(Transpose(x_), grad_h)
    IN  [w1 |-> grad_w1, w2 |-> grad_w2]

\* The accumulation of a gradient g into an accumulator acc (Tensor.grad).
Accumulate(acc, g) == IF acc = None THEN g ELSE Add(acc, g)

\* Tensor.zero_()
zero_(A) == Zeros(Rows(A), Cols(A))

----------------------------------------------------------------------------
\* The script.

Init ==
    /\ pc = "for"
    /\ t = -1
    /\ x \in {Filled(N, D_in, v) : v \in XVals}
    /\ y \in {Filled(N, D_out, v) : v \in YVals}
    /\ w1 \in {RowsOf(D_in, [j \in 1..H |-> IF j % 2 = 1 THEN v[1] ELSE v[2]]) :
                 v \in W1Vals \X W1Vals}
    /\ w2 \in {Filled(H, D_out, v) : v \in W2Vals}
    /\ w1_grad = None
    /\ w2_grad = None
    /\ ctx = <<>>
    /\ relu_out = None
    /\ y_pred = None
    /\ loss = 0
    /\ out = <<>>
    /\ input = None
    /\ output = None
    /\ prev_output = None
    /\ saved_tensors = None
    /\ used_input = None
    /\ grad_output = None
    /\ grad_input = None

\* Variant of the loop head that stops one iteration early.
ForLoop_one_short ==
    /\ pc = "for"
    /\ IF t + 1 < NumIters - 1
       THEN /\ t' = t + 1
            /\ pc' = "forward"
       ELSE /\ t' = t
            /\ pc' = "finish"
    /\ UNCHANGED <<x, y, w1, w2, w1_grad, w2_grad, ctx, relu_out, y_pred,
                   loss, out>>
    /\ UNCHANGED reluVars

\* Line 58: for t in range(500)
ForLoop ==
    /\ pc = "for"
    /\ IF t + 1 < NumIters
       THEN /\ t' = t + 1
            /\ pc' = "forward"
       ELSE /\ t' = t
            /\ pc' = "finish"
    /\ UNCHANGED <<x, y, w1, w2, w1_grad, w2_grad, ctx, relu_out, y_pred,
                   loss, out>>
    /\ UNCHANGED reluVars

\* Lines 60-64: y_pred = relu(x.mm(w1)).mm(w2)
Forward ==
    /\ pc = "forward"
    /\ LET r == MyRelu_forward(Mm(x, w1))
       IN  /\ ctx' = Append(ctx, r.saved)
           /\ relu_out' = r.output
           /\ y_pred' = Mm(r.output, w2)
    /\ pc' = "loss"
    /\ UNCHANGED <<t, x, y, w1, w2, w1_grad, w2_grad, loss, out>>
    /\ UNCHANGED reluVars

\* Variant of line 67 that subtracts in place: y.sub_(y_pred).pow(2).sum()
Loss_in_place ==
    /\ pc = "loss"
    /\ y' = Sub(y, y_pred)
    /\ loss' = SumSquares(Sub(y, y_pred))
    /\ pc' = "print"
    /\ UNCHANGED <<t, x, w1, w2, w1_grad, w2_grad, ctx, relu_out, y_pred, out>>
    /\ UNCHANGED reluVars

\* Line 67: loss = (y_pred - y).pow(2).sum()
Loss ==
    /\ pc = "loss"
    /\ loss' = SumSquares(Sub(y_pred, y))
    /\ pc' = "print"
    /\ UNCHANGED <<t, x, y, w1, w2, w1_grad, w2_grad, ctx, relu_out, y_pred,
                   out>>
    /\ UNCHANGED reluVars

\* Line 68: print(t, loss.item())
PrintLoss ==
    /\ pc = "print"
    /\ out' = Append(out, <<t, loss>>)
    /\ pc' = "backward"
    /\ UNCHANGED <<t, x, y, w1, w2, w1_grad, w2_grad, ctx, relu_out, y_pred,
                   loss>>
    /\ UNCHANGED reluVars

\* Variant of line 71 that keeps the graph: loss.backward(retain_graph=True).
Backward_retain_graph ==
    /\ pc = "backward"
    /\ ctx # <<>>
    /\ LET g == BackwardPass(x, y, w2, ctx[Len(ctx)], relu_out, y_pred)
       IN  /\ w1_grad' = Accumulate(w1_grad, g.w1)
           /\ w2_grad' = Accumulate(w2_grad, g.w2)
    /\ ctx' = ctx
    /\ pc' = "update_w1"
    /\ UNCHANGED <<t, x, y, w1, w2, relu_out, y_pred, loss, out>>
    /\ UNCHANGED reluVars

\* Line 71: loss.backward().  The engine calls MyRelu.backward with the
\* context of the apply call of this graph, adds the gradients to w1.grad
\* and w2.grad and frees the graph with its saved tensors.
Backward ==
    /\ pc = "backward"
    /\ ctx # <<>>
    /\ LET g == BackwardPass(x, y, w2, ctx[Len(ctx)], relu_out, y_pred)
       IN  /\ w1_grad' = Accumulate(w1_grad, g.w1)
           /\ w2_grad' = Accumulate(w2_grad, g.w2)
    /\ ctx' = SubSeq(ctx, 1, Len(ctx) - 1)
    /\ pc' = "update_w1"
    /\ UNCHANGED <<t, x, y, w1, w2, relu_out, y_pred, loss, out>>
    /\ UNCHANGED reluVars

\* Variant of line 75 that steps up the gradient: w1 += learning_rate * w1.grad
UpdateW1_ascent ==
    /\ pc = "update_w1"
    /\ w1' = Add(w1, learning_rate_times(w1_grad))
    /\ pc' = "update_w2"
    /\ UNCHANGED <<t, x, y, w2, w1_grad, w2_grad, ctx, relu_out, y_pred,
                   loss, out>>
    /\ UNCHANGED reluVars

\* Lines 74-75: with torch.no_grad(): w1 -= learning_rate * w1.grad
UpdateW1 ==
    /\ pc = "update_w1"
    /\ w1' = Sub(w1, learning_rate_times(w1_grad))
    /\ pc' = "update_w2"
    /\ UNCHANGED <<t, x, y, w2, w1_grad, w2_grad, ctx, relu_out, y_pred,
                   loss, out>>
    /\ UNCHANGED reluVars

\* Variant of line 76 that resets the accumulators before the update of w2
\* is done and ends the iteration there.
UpdateW2_after_reset ==
    /\ pc = "update_w2"
    /\ w1_grad' = zero_(w1_grad)
    /\ w2_grad' = zero_(w2_grad)
    /\ w2' = Sub(w2, learning_rate_times(zero_(w2_grad)))
    /\ pc' = "for"
    /\ UNCHANGED <<t, x, y, w1, ctx, relu_out, y_pred, loss, out>>
    /\ UNCHANGED reluVars

\* Line 76: w2 -= learning_rate * w2.grad
UpdateW2 ==
    /\ pc = "update_w2"
    /\ w2' = Sub(w2, learning_rate_times(w2_grad))
    /\ pc' = "zero_w1"
    /\ UNCHANGED <<t, x, y, w1, w1_grad, w2_grad, ctx, relu_out, y_pred,
                   loss, out>>
    /\ UNCHANGED reluVars

\* Variant of line 79 that zeroes the weight: w1.zero_()
ZeroW1_of_weight ==
    /\ pc = "zero_w1"
    /\ w1' = zero_(w1)
    /\ pc' = "zero_w2"
    /\ UNCHANGED <<t, x, y, w2, w1_grad, w2_grad, ctx, relu_out, y_pred,
                   loss, out>>
    /\ UNCHANGED reluVars

\* Line 79: w1.grad.zero_()
ZeroW1 ==
    /\ pc = "zero_w1"
    /\ w1_grad' = zero_(w1_grad)
    /\ pc' = "zero_w2"
    /\ UNCHANGED <<t, x, y, w1, w2, w2_grad, ctx, relu_out, y_pred, loss,
                   out>>
    /\ UNCHANGED reluVars

\* Variant of line 80 that leaves the accumulator as it is.
ZeroW2_skipped ==
    /\ pc = "zero_w2"
    /\ pc' = "for"
    /\ UNCHANGED <<t, x, y, w1, w2, w1_grad, w2_grad, ctx, relu_out, y_pred,
                   loss, out>>
    /\ UNCHANGED reluVars

\* Line 80: w2.grad.zero_(), the last statement of the loop body
ZeroW2 ==
    /\ pc = "zero_w2"
    /\ w2_grad' = zero_(w2_grad)
    /\ pc' = "for"
    /\ UNCHANGED <<t, x, y, w1, w2, w1_grad, ctx, relu_out, y_pred, loss,
                   out>>
    /\ UNCHANGED reluVars

\* Lines 82-83: print('time of execution: ', finish_time - start_time)
Finish ==
    /\ pc = "finish"
    /\ out' = Append(out, <<"time of execution: ">>)
    /\ pc' = "done"
    /\ UNCHANGED <<t, x, y, w1, w2, w1_grad, w2_grad, ctx, relu_out, y_pred,
                   loss>>
    /\ UNCHANGED reluVars

Next ==
    \/ ForLoop
    \/ Forward
    \/ Loss
    \/ PrintLoss
    \/ Backward
    \/ UpdateW1
    \/ UpdateW2
    \/ ZeroW1
    \/ ZeroW2
    \/ Finish

Spec == Init /\ [][Next]_vars

----------------------------------------------------------------------------
\* MyRelu on its own: forward and backward called directly on tensors of
\* shape (1, NumElems).

InitRelu ==
    /\ pc = "relu"
    /\ t = -1
    /\ x = None
    /\ y = None
    /\ w1 = None
    /\ w2 = None
    /\ w1_grad = None
    /\ w2_grad = None
    /\ ctx = <<>>
    /\ relu_out = None
    /\ y_pred = None
    /\ loss = 0
    /\ out = <<>>
    /\ input \in Matrices(1, NumElems, InVals)
    /\ output = None
    /\ prev_output = None
    /\ saved_tensors = None
    /\ used_input = None
    /\ grad_output = None
    /\ grad_input = None

\* A caller makes a new input tensor; what an earlier forward call saved
\* stays in the context.
ReluNewInput ==
    /\ pc = "relu"
    /\ \E v \in Matrices(1, NumElems, InVals) :
          /\ v # input
          /\ input' = v
    /\ output' = None
    /\ prev_output' = None
    /\ used_input' = None
    /\ grad_output' = None
    /\ grad_input' = None
    /\ UNCHANGED saved_tensors
    /\ UNCHANGED loopVars

\* MyRelu.forward(ctx, input), lines 19-27
ReluForward ==
    /\ pc = "relu"
    /\ LET r == MyRelu_forward(input)
       IN  /\ input' = r.input
           /\ saved_tensors' = r.saved
           /\ output' = r.output
    /\ prev_output' = output
    /\ UNCHANGED <<used_input, grad_output, grad_input>>
    /\ UNCHANGED loopVars

\* MyRelu.backward(ctx, grad_output), lines 30-39, after a forward call
ReluBackward ==
    /\ pc = "relu"
    /\ saved_tensors # None
    /\ \E g \in Matrices(1, NumElems, GradVals) :
          /\ grad_output' = g
          /\ grad_input' = MyRelu_backward(saved_tensors, g)
    /\ used_input' = saved_tensors
    /\ saved_tensors' = None
    /\ UNCHANGED <<input, output, prev_output>>
    /\ UNCHANGED loopVars

NextRelu ==
    \/ ReluNewInput
    \/ ReluForward
    \/ ReluBackward

SpecRelu == InitRelu /\ [][NextRelu]_vars

----------------------------------------------------------------------------
\* Properties.

Idx(A) == {<<i, j>> : i \in 1..Rows(A), j \in 1..Cols(A)}

SameShape(A, B) == Rows(A) = Rows(B) /\ Cols(A) = Cols(B)

NonZero(A) == \E p \in Idx(A) : A[p[1]][p[2]] # 0

\* The forward pass recomputed from the weights W1, W2: x.mm(W1), its clamp
\* at 0 and the prediction.  (Binding each tensor through a singleton set
\* makes TLC compute it once.)
Hidden(W1) == Mm(x, W1)

ForwardAt(W1, W2) ==
    CHOOSE f \in {[hidden |-> hc[1], relu |-> hc[2], pred |-> Mm(hc[2], W2)] :
                     hc \in {<<h, Clamp(h, 0)>> : h \in {Hidden(W1)}}} : TRUE

LossAt(W1, W2) == SumSquares(Sub(ForwardAt(W1, W2).pred, y))

\* The gradients of the loss at the weights W1, W2, as the engine computes
\* them in one reverse pass.
GradientAt(W1, W2) ==
    CHOOSE g \in {BackwardPass(x, y, W2, f.hidden, f.relu, f.pred) :
                     f \in {ForwardAt(W1, W2)}} : TRUE

\* C1: backward returns g[i] where the stored input is > 0 and 0 elsewhere,
\* so the gradient is 0 wherever the stored input is exactly 0.
C1_BackwardZeroAtNonPositive ==
    grad_input # None =>
        /\ SameShape(grad_input, grad_output)
        /\ \A p \in Idx(grad_output) :
              grad_input[p[1]][p[2]] =
                  IF used_input[p[1]][p[2]] > 0
                  THEN grad_output[p[1]][p[2]]
                  ELSE 0

\* C2: forward returns a tensor of the shape of its input whose element i
\* is x[i] when x[i] >= 0 and 0 when x[i] < 0.
C2_ForwardClamps ==
    output # None =>
        /\ SameShape(output, input)
        /\ \A p \in Idx(input) :
              output[p[1]][p[2]] =
                  IF input[p[1]][p[2]] >= 0 THEN input[p[1]][p[2]] ELSE 0

C2_Witness ==
    /\ output # None
    /\ \E p \in Idx(input) : input[p[1]][p[2]] < 0
    /\ \E p \in Idx(input) : input[p[1]][p[2]] > 0

\* C3: whenever loss.backward() is about to run, the accumulators of w1 and
\* w2 are unset (first iteration) or all zero, and the accumulators the
\* weight update reads hold the gradient of this iteration's pass alone.
C3_GradientsNeverSum ==
    /\ pc = "backward" =>
          IF t = 0
          THEN w1_grad = None /\ w2_grad = None
          ELSE /\ w1_grad = Zeros(D_in, H)
               /\ w2_grad = Zeros(H, D_out)
    /\ pc = "update_w1" =>
          \E g \in {GradientAt(w1, w2)} :
              w1_grad = g.w1 /\ w2_grad = g.w2

C3_Witness ==
    /\ pc = "update_w1"
    /\ t >= 1
    /\ NonZero(w1_grad)
    /\ NonZero(w2_grad)

\* C4: between a forward call and its backward call exactly one context is
\* outstanding and it holds x.mm(w1) of the current (not yet updated)
\* weights; at every other point of the loop no context is outstanding, so
\* forward and backward calls alternate strictly.
C4_ForwardBackwardPairing ==
    /\ pc \in {"loss", "print", "backward"} => ctx = <<Hidden(w1)>>
    /\ pc \in {"for", "forward", "update_w1", "update_w2", "zero_w1",
               "zero_w2", "finish", "done"} => ctx = <<>>

C4_Witness ==
    /\ pc = "backward"
    /\ t >= 1
    /\ Len(ctx) = 1
    /\ out[Len(out)][2] # out[1][2]

\* C5: the steps of an iteration run in the order forward, loss,
\* differentiation, update, reset: the accumulators are written only by the
\* differentiation (before the update) and by the reset (after it), the
\* weights only in between, and the next iteration starts only after the
\* reset.
StepOrder ==
    {<<"for", "forward">>, <<"forward", "loss">>, <<"loss", "print">>,
     <<"print", "backward">>, <<"backward", "update_w1">>,
     <<"update_w1", "update_w2">>, <<"update_w2", "zero_w1">>,
     <<"zero_w1", "zero_w2">>, <<"zero_w2", "for">>, <<"for", "finish">>,
     <<"finish", "done">>}

C5_StepOrder ==
    [][/\ <<pc, pc'>> \in StepOrder
       /\ t' # t => pc = "for" /\ t' = t + 1
       /\ w1_grad' # w1_grad => pc \in {"backward", "zero_w1"}
       /\ w2_grad' # w2_grad => pc \in {"backward", "zero_w2"}
       /\ (pc' = "forward" /\ t' >= 1) =>
             (w1_grad = Zeros(D_in, H) /\ w2_grad = Zeros(H, D_out))]_vars

C5_Witness ==
    /\ pc = "forward"
    /\ t = 2
    /\ Len(out) = 2
    /\ out[2][2] < out[1][2]

\* C6: the script stops after exactly 500 iterations whatever the losses
\* are (every statement can run and leaves one statement fewer to run, down
\* to none), having printed 500 lines with the indices 0..499 in increasing
\* order, each with the loss of the weights before that iteration's update,
\* and then exactly one elapsed-time line.
OutputComplete ==
    /\ pc = "done"
    /\ t = 499
    /\ Len(out) = 501
    /\ \A i \in 1..500 : Len(out[i]) = 2 /\ out[i][1] = i - 1
    /\ out[501] = <<"time of execution: ">>

OutputSoFar ==
    /\ pc \in {"backward", "update_w1"} =>
          out[Len(out)] = <<t, LossAt(w1, w2)>>
    /\ pc \notin {"finish", "done"} => Len(out) <= t + 1
    /\ pc = "done" => OutputComplete

\* The statements still to run: 9 per remaining iteration, the rest of the
\* current one, the exit of the loop and the final print.
PosInBody ==
    CASE pc = "forward"   -> 1
      [] pc = "loss"      -> 2
      [] pc = "print"     -> 3
      [] pc = "backward"  -> 4
      [] pc = "update_w1" -> 5
      [] pc = "update_w2" -> 6
      [] pc = "zero_w1"   -> 7
      [] pc = "zero_w2"   -> 8
      [] OTHER            -> 9

StepsLeft ==
    CASE pc = "done"   -> 0
      [] pc = "finish" -> 1
      [] OTHER         -> 9 * (500 - 1 - t) + 2 + (9 - PosInBody)

C6_TerminatesAfter500 ==
    /\ [][StepsLeft' = StepsLeft - 1]_vars
    /\ [](pc # "done" => ENABLED Next)
    /\ [](StepsLeft >= 0)
    /\ []OutputSoFar

C6_Witness ==
    /\ OutputComplete
    /\ out[500][2] # out[1][2]
    /\ out[500][2] > 0

\* C7: right after the zeroing step each accumulator is the all-zero array
\* of the shape of its weight, and the zeroing changes neither weight.
C7_ZeroingResets ==
    [][/\ pc = "zero_w1" =>
             /\ w1_grad' = Zeros(Rows(w1), Cols(w1))
             /\ w1' = w1 /\ w2' = w2
       /\ pc = "zero_w2" =>
             /\ w2_grad' = Zeros(Rows(w2), Cols(w2))
             /\ w1_grad' = Zeros(Rows(w1), Cols(w1))
             /\ w1' = w1 /\ w2' = w2]_vars

C7_Witness ==
    /\ pc = "for"
    /\ t >= 0
    /\ w1_grad = Zeros(D_in, H)
    /\ w2_grad = Zeros(H, D_out)
    /\ \E g \in {GradientAt(w1, w2)} : NonZero(g.w1) /\ NonZero(g.w2)

\* C8: x and y never change, and w1 and w2 are changed by the weight-update
\* step only.
C8_Frame ==
    [][/\ x' = x
       /\ y' = y
       /\ w1' # w1 => pc = "update_w1"
       /\ w2' # w2 => pc = "update_w2"]_vars

C8_Witness ==
    /\ pc = "zero_w1"
    /\ NonZero(learning_rate_times(w1_grad))
    /\ NonZero(learning_rate_times(w2_grad))
    /\ t >= 1

\* C9: a second forward call on the same input returns what the first one
\* returned: forward leaves its input as it was, and its result is a
\* function of the input alone, whatever earlier calls left behind.
C9_ForwardIdempotent ==
    [][ReluForward =>
          /\ input' = input
          /\ output # None => output' = output]_vars

C9_Witness ==
    /\ pc = "relu"
    /\ prev_output # None
    /\ prev_output = output
    /\ \E p \in Idx(input) : input[p[1]][p[2]] < 0
    /\ grad_input # None
    /\ used_input # input

\* C10: the update step takes learning_rate times the accumulator from each
\* weight, both accumulators being the gradients at the weights the
\* iteration started with, and leaves the accumulators as they are.
IsLrStep(W, Wn, G) ==
    /\ SameShape(Wn, W)
    /\ \A p \in Idx(W) :
          LET d == LrDen * (W[p[1]][p[2]] - Wn[p[1]][p[2]])
                       - LrNum * G[p[1]][p[2]]
          IN  2 * d <= LrDen /\ 2 * d > -LrDen

C10_UpdateRule ==
    [][/\ pc = "update_w1" =>
             /\ \E g \in {GradientAt(w1, w2)} :
                   w1_grad = g.w1 /\ w2_grad = g.w2
             /\ IsLrStep(w1, w1', w1_grad)
             /\ w2' = w2
             /\ w1_grad' = w1_grad /\ w2_grad' = w2_grad
       /\ pc = "update_w2" =>
             /\ IsLrStep(w2, w2', w2_grad)
             /\ w1' = w1
             /\ w1_grad' = w1_grad /\ w2_grad' = w2_grad]_vars

C10_Witness ==
    /\ pc = "zero_w1"
    /\ NonZero(learning_rate_times(w1_grad))
    /\ NonZero(learning_rate_times(w2_grad))
    /\ w2_grad # GradientAt(w1, w2).w2

====
